---- MODULE Spec2Model ----
EXTENDS Integers, Naturals, Sequences, FiniteSets, Bags, TLC

(***************************************************************************)
(* Sync/cache engine of plex-news: the SQLite store (src/src/database.py)  *)
(* and the sync orchestrator (src/src/tautulli_api.py).                    *)
(*                                                                         *)
(* Spec      : the store and the sync runs (sync_data, sync_full_library). *)
(* SpecPage  : the pagination loop against a well-behaved remote.          *)
(* SpecRetry : Database.execute_with_retry.                                *)
(***************************************************************************)

\* ---------------------------------------------------------------- bounds
MaxKey    == 2      \* rating keys 1..MaxKey
MaxUser   == 1      \* user ids 1..MaxUser
MaxDate   == 1      \* 'date' of a history record, 1..MaxDate
MaxAdded  == 1      \* 'added_at' of a media record, 1..MaxAdded (0 = None)
MaxTime   == 2      \* the clock runs 1..MaxTime
MaxPage   == 2      \* records in one remote page, 0..MaxPage
MaxTotal  == 2      \* recordsTotal reported by the remote, 0..MaxTotal
MaxLibs   == 1      \* library sections returned by get_libraries, 0..MaxLibs

\* Python's None / SQL NULL
None == 0
Keys   == 1..MaxKey
Users  == 1..MaxUser
Dates  == 1..MaxDate
Times  == 1..MaxTime
\* title (and media_type, which the remote sends with it): None or a value;
\* the schema only tests them for NULL.
Titles == {None, 1}

\* A record of the remote's get_history: item.get('rating_key'), 'user_id',
\* 'date', 'title'; it carries no 'added_at', so item.get('added_at') is None.
HistoryRecords ==
  [rating_key : Keys, user_id : Users, date : Dates, title : Titles, added_at : {None}]

\* A record of the remote's get_library_media_info, normalised.
MediaRecords ==
  [rating_key : Keys, title : Titles, added_at : 0..MaxAdded]

VARIABLES
  db,         \* the committed contents of the database file
  conn,       \* Database._connection: "none" or "open"
  txn,        \* what the open connection sees: db plus its uncommitted writes
  now,        \* the clock, int(datetime.now().timestamp())
  pc,         \* position of the sync run
  run,        \* which operation is running / ran last
  full_sync,  \* sync_data's full_sync argument
  last_sync,  \* sync_data's last_sync['history']
  offset,     \* the pagination loop's offset
  total_records, \* recordsTotal of the last page
  page_len,   \* len(history) / len(items) of the page being stored
  pending,    \* records of the page not stored yet
  libs_left,  \* library sections not walked yet
  cleanup_stale, \* sync_full_library's cleanup_stale argument
  valid_keys, \* the set _collect_all_rating_keys returned
  resp,       \* kind of the last remote response: "none", "null", "empty", "page"
  result,     \* return value of the operation: "none", "True", "False"
  pre,        \* db when the run started
  run_start,  \* the clock when the run started
  stored,     \* history records stored by the run so far
  last_hist,  \* store_play_history in the last step: "none", "inserted", "duplicate", "raised"
  last_media, \* store_media_item in the last step: "none", "stored", "swallowed"
  params,     \* the start_date parameter of the run's last get_history request
  \* the pagination loop against a remote of remote_total records (SpecPage)
  remote_total, \* records the remote holds; it reports this as recordsTotal
  requests,   \* the requests issued so far: <<[start, returned], ...>>
  \* execute_with_retry (SpecRetry)
  outcomes,   \* what cursor.execute does on its 1st, 2nd, ... call
  attempt,    \* the for loop's attempt
  retry_delay,\* retry_delay
  slept,      \* the time.sleep calls made: <<delay, ...>>
  retry_pc,   \* "idle", "try", "returned", "raised"
  \* the recursive library walk below one season or album (SpecWalk)
  walk_kind,  \* media_type of the parent item: "none", "season", "album"
  parent_added, \* item.get('added_at') the remote reports for the parent
  children,   \* added_at of the children the remote lists under it, in order
  walk_idx,   \* children stored so far
  walk_pc,    \* "idle", "parent", "children", "done"
  \* one run of the sync CLI, scripts/sync_data.py (SpecCli)
  env_url,    \* TAUTULLI_URL in the environment ("" when unset)
  env_key,    \* TAUTULLI_API_KEY in the environment ("" when unset)
  arg_clear,  \* --clear
  arg_full,   \* --full-sync
  base_url,   \* TautulliAPI.base_url
  api_key,    \* TautulliAPI.api_key
  fs,         \* the data directory, the database file and its schema
  fs0,        \* fs when the process started
  db_built,   \* Database() has been constructed
  cleared,    \* clear_all_data has been called
  sync_result,\* what api.sync_data did: "none", "True", "False", "raised"
  printed,    \* the diagnostics printed
  exit_status,\* the process's exit status, once cli_pc = "exited"
  cli_pc,     \* "idle", "start", "env", "db", "constructed", "ready", "synced",
              \* "returned", "exited"
  \* the last store operation that chose its connection by itself (SpecRead)
  last_op,    \* "none", "read_new", "read_shared", "other_process",
              \* "get_last_sync_time", "clear_all_data"
  op_conn,    \* the connection it ran on: "none", "own", "transaction"
  op_txn_open,\* the instance's transaction was open when it ran
  op_pending, \* the transaction held uncommitted writes when it ran
  op_dirty,   \* it returned rows that were not committed
  \* _collect_all_rating_keys and the library walk over one section (SpecKeys)
  sec_type,   \* section_type: "none", "show", "artist", "movie"
  sec_total,  \* top-level items the remote holds in the section
  keys_pc,    \* "idle", "collect", "children", "collected", "walk", "done", "raised"
  keys_offset,\* the running loop's offset
  items,      \* rating keys of the page last assigned to the local "items"
  items_bound,\* the local "items" has been assigned
  all_keys,   \* all_keys
  upserted,   \* rating keys the walk passed to store_media_item
  req_failed, \* some request of the two functions got no response
  \* the media_items table column by column (SpecRow)
  tbl,        \* the rows of media_items
  prev_tbl,   \* tbl before the last store_media_item call
  last_item,  \* the dict the last call was given
  last_kind,  \* who made the last call: "none", "library", "history"
  last_raised,\* the last call's statement raised
  \* the store's transaction handle, operation by operation (SpecTxn)
  begun,      \* what the last operation, if begin_transaction, found: "none"
              \* (another operation), "fresh" (no connection), "clean" (an open
              \* connection without writes), "dirty" (one with uncommitted writes)
  before,     \* the store before the last operation
  \* the read-side calls of TautulliAPI (SpecApi)
  api_op,     \* the last one: "none", "get_recently_added", "get_user_stats",
              \* "get_most_watched_by_users"
  api_wrote,  \* some read-side call has written a row
  \* two processes running sync_data on one database file (SpecConc)
  c_file,     \* the committed rows of play_history
  c_lock,     \* the process holding the file's write lock, 0 when it is free
  c_pc,       \* per process: "idle", "upsert", "lookup", "insert", "commit", "done"
  c_rec,      \* per process: the play_history row of the record in hand
  c_found,    \* per process: cursor.fetchone() of the dedup lookup
  c_new,      \* per process: the rows its open transaction has inserted
  c_left,     \* per process: records of the run still to store
  c_result,   \* per process: what sync_data returned: "none", "True", "False"
  c_overlap   \* a process began its run while the other was in its run

sync_vars == <<db, conn, txn, now, pc, run, full_sync, last_sync, offset, total_records,
          page_len, pending, libs_left, cleanup_stale, valid_keys, resp, result, pre, run_start, stored,
          last_hist, last_media, params>>
page_vars == <<remote_total, requests>>
retry_vars == <<outcomes, attempt, retry_delay, slept, retry_pc>>
walk_vars == <<walk_kind, parent_added, children, walk_idx, walk_pc>>
cli_vars == <<env_url, env_key, arg_clear, arg_full, base_url, api_key, fs, fs0,
              db_built, cleared, sync_result, printed, exit_status, cli_pc>>
read_vars == <<last_op, op_conn, op_txn_open, op_pending, op_dirty>>
keys_vars == <<sec_type, sec_total, keys_pc, keys_offset, items, items_bound, all_keys,
               upserted, req_failed>>
row_vars == <<tbl, prev_tbl, last_item, last_kind, last_raised>>
txn_vars == <<begun, before>>
api_vars == <<api_op, api_wrote>>
conc_vars == <<c_file, c_lock, c_pc, c_rec, c_found, c_new, c_left, c_result, c_overlap>>
more_vars == <<keys_vars, row_vars, txn_vars, api_vars, conc_vars>>
aux_vars == <<walk_vars, cli_vars, read_vars, more_vars>>
vars == <<sync_vars, page_vars, retry_vars, aux_vars>>

\* ------------------------------------------------------------ the tables
\* init_db: empty tables and the sync_status row (1, 0, 0) with total 0.
\* status_ids are the ids of the rows of sync_status, status is the row with
\* id = 1 ("id INTEGER PRIMARY KEY CHECK (id = 1)").
EmptyDb ==
  [ media   |-> {},
    history |-> EmptyBag,
    users   |-> {},
    status_ids |-> {1},
    status  |-> [last_history_sync |-> 0, last_library_sync |-> 0,
                 total_items_synced |-> 0] ]

HistoryRow(h) == [rating_key |-> h.rating_key, user_id |-> h.user_id, watched_at |-> h.date]

\* A store is the file, the connection handle and the connection's view.
Store(d, c, t) == [db |-> d, conn |-> c, txn |-> t]

\* The wrong begin_transaction: the open transaction is committed first.
begin_transaction_commits(S) == Store(S.txn, "open", S.txn)

\* The wrong begin_transaction: an open connection is kept.
begin_transaction_keeps(S) == IF S.conn = "open" THEN S ELSE Store(S.db, "open", S.db)

begin_transaction(S) == Store(S.db, "open", S.db)

commit_transaction(S) ==
  IF S.conn = "open" THEN Store(S.txn, "none", S.txn) ELSE S

rollback_transaction_commits(S) ==
  IF S.conn = "open" THEN Store(S.txn, "none", S.txn) ELSE S

\* The wrong rollback: the file is reset to its initial content, not to the
\* last commit.
rollback_transaction_resets(S) ==
  IF S.conn = "open" THEN Store(EmptyDb, "none", EmptyDb) ELSE S

rollback_transaction(S) ==
  IF S.conn = "open" THEN Store(S.db, "none", S.db) ELSE S

\* "if self._connection is None: self.begin_transaction()"
ImplicitBegin(S) == IF S.conn = "none" THEN begin_transaction(S) ELSE S

\* ------------------------------------------------------- store operations
\* INSERT OR REPLACE INTO media_items: the row with the same rating_key goes.
UpsertMedia(media, item) ==
  {r \in media : r.rating_key # item.rating_key}
    \cup {[rating_key |-> item.rating_key, title |-> item.title, added_at |-> item.added_at]}

\* The statement raises: the injected error `fail` (a lock that outlives the
\* retries), or title NOT NULL refusing a null title.
MediaWriteRaises(item, fail) == fail \/ item.title = None

\* The wrong upsert: INSERT OR IGNORE keeps the stored row.
store_media_item_ignore(S, item, fail) ==
  LET S1 == ImplicitBegin(S) IN
  IF MediaWriteRaises(item, fail) THEN S1
  ELSE IF \E r \in S1.txn.media : r.rating_key = item.rating_key THEN S1
  ELSE [S1 EXCEPT !.txn.media = UpsertMedia(@, item)]

\* store_media_item: the exception is printed and swallowed, the transaction
\* stays open.
store_media_item(S, item, fail) ==
  LET S1 == ImplicitBegin(S) IN
  IF MediaWriteRaises(item, fail) THEN S1
  ELSE [S1 EXCEPT !.txn.media = UpsertMedia(@, item)]

\* The wrong update_sync_time: total_items_synced is left alone.
update_sync_time_nocount(S, sync_type, t) ==
  LET S1 == ImplicitBegin(S)
      h  == IF sync_type \in {"history", "both"}
            THEN [S1 EXCEPT !.txn.status.last_history_sync = t] ELSE S1
  IN IF sync_type \in {"library", "both"}
     THEN [h EXCEPT !.txn.status.last_library_sync = t] ELSE h

\* The wrong update_sync_time: sync_type is taken to be the default, 'both'.
update_sync_time_both(S, sync_type, t) ==
  LET S1 == ImplicitBegin(S) IN
  [S1 EXCEPT !.txn.status.last_history_sync = t,
             !.txn.status.last_library_sync = t,
             !.txn.status.total_items_synced = @ + 1]

update_sync_time(S, sync_type, t) ==
  LET S1 == ImplicitBegin(S)
      h  == IF sync_type \in {"history", "both"}
            THEN [S1 EXCEPT !.txn.status.last_history_sync = t] ELSE S1
      l  == IF sync_type \in {"library", "both"}
            THEN [h EXCEPT !.txn.status.last_library_sync = t] ELSE h
  IN [l EXCEPT !.txn.status.total_items_synced = @ + 1]

UpsertUser(users, h) ==
  {u \in users : u.user_id # h.user_id}
    \cup {[user_id |-> h.user_id, last_seen |-> h.date]}

MediaOutcome(item, fail) == IF MediaWriteRaises(item, fail) THEN "swallowed" ELSE "stored"

\* "except Exception: self.rollback_transaction(); raise"
HistoryRaise(S) == [store |-> rollback_transaction(S), raised |-> TRUE, outcome |-> "raised"]
HistoryOk(S, o) == [store |-> S, raised |-> FALSE, outcome |-> o]

\* Wrong variants of store_play_history.
\* No dedup lookup: every record is inserted.
store_play_history_nodedup(S, h, t, failAt) ==
  LET S1 == ImplicitBegin(S)
      u  == [S1 EXCEPT !.txn.users = UpsertUser(@, h)]
      i  == [u EXCEPT !.txn.history = @ (+) SetToBag({HistoryRow(h)})]
  IN IF failAt = 1 THEN HistoryRaise(S1)
     ELSE IF failAt = 2 THEN HistoryRaise(u)
     ELSE IF failAt = 3 THEN HistoryRaise(u)
     ELSE IF failAt = 4 THEN HistoryRaise(i)
     ELSE HistoryOk(update_sync_time(i, "history", t), "inserted")

\* The watermark is advanced for every record, new or not.
store_play_history_always_updates(S, h, t, failAt) ==
  LET S1 == ImplicitBegin(S)
      u  == [S1 EXCEPT !.txn.users = UpsertUser(@, h)]
      found == CopiesIn(HistoryRow(h), u.txn.history) > 0
      i  == [u EXCEPT !.txn.history = @ (+) SetToBag({HistoryRow(h)})]
  IN IF failAt = 1 THEN HistoryRaise(S1)
     ELSE IF failAt = 2 THEN HistoryRaise(u)
     ELSE IF found THEN HistoryOk(update_sync_time(u, "history", t), "duplicate")
     ELSE IF failAt = 3 THEN HistoryRaise(u)
     ELSE IF failAt = 4 THEN HistoryRaise(i)
     ELSE HistoryOk(update_sync_time(i, "history", t), "inserted")

\* The error is swallowed as store_media_item does: no rollback, no raise.
store_play_history_swallows(S, h, t, failAt) ==
  LET S1 == ImplicitBegin(S)
      u  == [S1 EXCEPT !.txn.users = UpsertUser(@, h)]
      found == CopiesIn(HistoryRow(h), u.txn.history) > 0
      i  == [u EXCEPT !.txn.history = @ (+) SetToBag({HistoryRow(h)})]
  IN IF failAt = 1 THEN HistoryOk(S1, "raised")
     ELSE IF failAt = 2 THEN HistoryOk(u, "raised")
     ELSE IF found THEN HistoryOk(u, "duplicate")
     ELSE IF failAt = 3 THEN HistoryOk(u, "raised")
     ELSE IF failAt = 4 THEN HistoryOk(i, "raised")
     ELSE HistoryOk(update_sync_time(i, "history", t), "inserted")

\* store_play_history(h) at clock t. failAt names the statement that raises:
\* 0 none, 1 the users upsert, 2 the dedup SELECT, 3 the INSERT,
\* 4 update_sync_time; 3 and 4 are executed only for a record that is not
\* stored yet.
store_play_history(S, h, t, failAt) ==
  LET S1 == ImplicitBegin(S)
      u  == [S1 EXCEPT !.txn.users = UpsertUser(@, h)]
      found == CopiesIn(HistoryRow(h), u.txn.history) > 0
      i  == [u EXCEPT !.txn.history = @ (+) SetToBag({HistoryRow(h)})]
  IN IF failAt = 1 THEN HistoryRaise(S1)
     ELSE IF failAt = 2 THEN HistoryRaise(u)
     ELSE IF found THEN HistoryOk(u, "duplicate")
     ELSE IF failAt = 3 THEN HistoryRaise(u)
     ELSE IF failAt = 4 THEN HistoryRaise(i)
     ELSE HistoryOk(update_sync_time(i, "history", t), "inserted")

\* The wrong reset: sync_status is emptied like the other three tables.
ClearedDb_deletes == [EmptyDb EXCEPT !.status_ids = {}]

\* clear_all_data: the three tables emptied ("DELETE FROM ..."), the
\* sync_status row reset by an UPDATE and kept.
ClearedDb == EmptyDb

\* ------------------------------------------------------------ the state
Cur == Store(db, conn, txn)
SetStore(S) == db' = S.db /\ conn' = S.conn /\ txn' = S.txn

Rest == {"Idle", "Committed", "RolledBack", "Failed"}

PageIdle == remote_total = 0 /\ requests = << >>
RetryIdle ==
  outcomes = << >> /\ attempt = 0 /\ retry_delay = 0 /\ slept = << >> /\ retry_pc = "idle"
WalkIdle ==
  /\ walk_kind = "none" /\ parent_added = None /\ children = << >>
  /\ walk_idx = 0 /\ walk_pc = "idle"
NoFs == [dir |-> FALSE, file |-> FALSE, tables |-> {}, status_row |-> FALSE]
CliIdle ==
  /\ env_url = "" /\ env_key = "" /\ arg_clear = FALSE /\ arg_full = FALSE
  /\ base_url = "" /\ api_key = "" /\ fs = NoFs /\ fs0 = NoFs
  /\ db_built = FALSE /\ cleared = FALSE /\ sync_result = "none"
  /\ printed = {} /\ exit_status = 0 /\ cli_pc = "idle"
ReadIdle ==
  /\ last_op = "none" /\ op_conn = "none" /\ op_txn_open = FALSE
  /\ op_pending = FALSE /\ op_dirty = FALSE
KeysIdle ==
  /\ sec_type = "none" /\ sec_total = 0 /\ keys_pc = "idle" /\ keys_offset = 0
  /\ items = {} /\ items_bound = FALSE /\ all_keys = {} /\ upserted = {}
  /\ req_failed = FALSE
RowIdle ==
  /\ tbl = {} /\ prev_tbl = {} /\ last_item = << >> /\ last_kind = "none"
  /\ last_raised = FALSE
TxnIdle == begun = "none" /\ before = Store(EmptyDb, "none", EmptyDb)
ApiIdle == api_op = "none" /\ api_wrote = FALSE
ConcIdle ==
  /\ c_file = EmptyBag /\ c_lock = 0 /\ c_pc = << >> /\ c_rec = << >>
  /\ c_found = << >> /\ c_new = << >> /\ c_left = << >> /\ c_result = << >>
  /\ c_overlap = FALSE
MoreIdle == KeysIdle /\ RowIdle /\ TxnIdle /\ ApiIdle /\ ConcIdle
AuxIdle == WalkIdle /\ CliIdle /\ ReadIdle /\ MoreIdle

\* A get_history request without start_date.
NoParams == [has_start_date |-> FALSE, start_date |-> None]

\* The wrong test: an incremental run sends start_date even when it is 0.
HistoryParams_nozero(f, ls) ==
  IF ~f THEN [has_start_date |-> TRUE, start_date |-> ls] ELSE NoParams

\* "if not full_sync and last_sync['history'] > 0:
\*      params["start_date"] = last_sync['history']"
HistoryParams(f, ls) ==
  IF ~f /\ ls > 0 THEN [has_start_date |-> TRUE, start_date |-> ls] ELSE NoParams

SyncInit ==
  /\ db = EmptyDb /\ conn = "none" /\ txn = EmptyDb
  /\ now = 1
  /\ pc = "Idle" /\ run = "none" /\ full_sync = FALSE /\ last_sync = 0
  /\ offset = 0 /\ total_records = 0 /\ page_len = 0 /\ pending = 0
  /\ libs_left = 0 /\ cleanup_stale = FALSE /\ valid_keys = {}
  /\ resp = "none" /\ result = "none"
  /\ pre = EmptyDb /\ run_start = 0 /\ stored = 0
  /\ last_hist = "none" /\ last_media = "none"
  /\ params = NoParams

Init == SyncInit /\ PageIdle /\ RetryIdle /\ AuxIdle

\* Locals of a run that is not running.
NoRun ==
  /\ run' = "none" /\ full_sync' = FALSE /\ last_sync' = 0
  /\ offset' = 0 /\ total_records' = 0 /\ page_len' = 0 /\ pending' = 0
  /\ libs_left' = 0 /\ cleanup_stale' = FALSE /\ valid_keys' = {}
  /\ resp' = "none" /\ result' = "none" /\ params' = NoParams
  /\ run_start' = 0 /\ stored' = 0

\* The clock advances.
Tick ==
  /\ now < MaxTime
  /\ now' = now + 1
  /\ UNCHANGED <<db, conn, txn, pc, run, full_sync, last_sync, offset, total_records,
                 page_len, pending, libs_left, cleanup_stale, valid_keys, resp, result,
                 pre, run_start, stored, last_hist, last_media, params>>
  /\ UNCHANGED <<page_vars, retry_vars, aux_vars>>

\* --------------------------------------- the store called outside a run
StoreMediaItemOf(item, fail) ==
  /\ pc \in Rest
  /\ SetStore(store_media_item(Cur, item, fail))
  /\ last_media' = MediaOutcome(item, fail)
  /\ pc' = "Idle" /\ NoRun /\ pre' = db' /\ last_hist' = "none"
  /\ UNCHANGED now
  /\ UNCHANGED <<page_vars, retry_vars, aux_vars>>

StoreMediaItem == \E item \in MediaRecords, fail \in BOOLEAN : StoreMediaItemOf(item, fail)

StorePlayHistory ==
  /\ pc \in Rest
  /\ \E h \in HistoryRecords, failAt \in 0..4 :
       LET R == store_play_history(Cur, h, now, failAt) IN
         /\ SetStore(R.store)
         /\ last_hist' = R.outcome
  /\ pc' = "Idle" /\ NoRun /\ pre' = db' /\ last_media' = "none"
  /\ UNCHANGED now
  /\ UNCHANGED <<page_vars, retry_vars, aux_vars>>

BeginTransaction ==
  /\ pc \in Rest
  /\ SetStore(begin_transaction(Cur))
  /\ pc' = "Idle" /\ NoRun /\ pre' = db' /\ last_hist' = "none" /\ last_media' = "none"
  /\ UNCHANGED now
  /\ UNCHANGED <<page_vars, retry_vars, aux_vars>>

CommitTransaction ==
  /\ pc \in Rest
  /\ conn = "open"
  /\ SetStore(commit_transaction(Cur))
  /\ pc' = "Idle" /\ NoRun /\ pre' = db' /\ last_hist' = "none" /\ last_media' = "none"
  /\ UNCHANGED now
  /\ UNCHANGED <<page_vars, retry_vars, aux_vars>>

RollbackTransaction ==
  /\ pc \in Rest
  /\ conn = "open"
  /\ SetStore(rollback_transaction(Cur))
  /\ pc' = "Idle" /\ NoRun /\ pre' = db' /\ last_hist' = "none" /\ last_media' = "none"
  /\ UNCHANGED now
  /\ UNCHANGED <<page_vars, retry_vars, aux_vars>>

\* clear_all_data writes through a connection of its own; it gets the write
\* lock only if the instance's connection holds no uncommitted write.
ClearAllData ==
  /\ pc \in Rest
  /\ txn = db
  /\ db' = ClearedDb /\ txn' = ClearedDb /\ conn' = conn
  /\ pc' = "Idle" /\ NoRun /\ pre' = db /\ last_hist' = "none" /\ last_media' = "none"
  /\ UNCHANGED now
  /\ UNCHANGED <<page_vars, retry_vars, aux_vars>>

\* ------------------------------------------------------------ sync runs
\* The history part of sync_data starts: get_last_sync_time reads the
\* committed row through a connection of its own, then begin_transaction.
HistoryStart(S) ==
  /\ last_sync' = S.db.status.last_history_sync
  /\ SetStore(begin_transaction(S))
  /\ pc' = "HistorySync"
  /\ offset' = 0 /\ total_records' = 0 /\ page_len' = 0 /\ pending' = 0
  /\ resp' = "none" /\ result' = "none" /\ params' = NoParams

\* sync_data(full_sync=False)
SyncDataIncremental ==
  /\ pc \in Rest
  /\ run' = "sync_data" /\ full_sync' = FALSE
  /\ HistoryStart(Cur)
  /\ libs_left' = 0 /\ cleanup_stale' = FALSE /\ valid_keys' = {}
  /\ pre' = db /\ run_start' = now /\ stored' = 0
  /\ last_hist' = "none" /\ last_media' = "none"
  /\ UNCHANGED now
  /\ UNCHANGED <<page_vars, retry_vars, aux_vars>>

\* A run enters sync_full_library.
LibraryEnter(r, f, c) ==
  /\ pc \in Rest
  /\ run' = r /\ full_sync' = f /\ cleanup_stale' = c
  /\ pc' = "LibrarySync"
  /\ last_sync' = 0 /\ offset' = 0 /\ total_records' = 0 /\ page_len' = 0
  /\ pending' = 0 /\ libs_left' = 0 /\ valid_keys' = {}
  /\ resp' = "none" /\ result' = "none" /\ params' = NoParams
  /\ pre' = db /\ run_start' = now /\ stored' = 0
  /\ last_hist' = "none" /\ last_media' = "none"
  /\ UNCHANGED <<db, conn, txn, now>>
  /\ UNCHANGED <<page_vars, retry_vars, aux_vars>>

\* sync_data(full_sync=True): "if not self.sync_full_library(): return False"
SyncDataFull == LibraryEnter("sync_data", TRUE, TRUE)

\* sync_full_library(cleanup_stale) called on its own
SyncFullLibrary == \E c \in BOOLEAN : LibraryEnter("sync_full_library", FALSE, c)

\* A run ends.
Return(S, p, r) ==
  /\ SetStore(S)
  /\ pc' = p /\ result' = r
  /\ page_len' = 0 /\ pending' = 0

\* sync_full_library returned True: sync_data goes on with the history,
\* a direct call is over.
LibraryDone(S) ==
  IF run = "sync_data"
  THEN /\ HistoryStart(commit_transaction(S))
       /\ libs_left' = 0
  ELSE /\ Return(commit_transaction(S), "Committed", "True")
       /\ libs_left' = 0 /\ offset' = 0
       /\ UNCHANGED <<last_sync, total_records, resp, params>>

\* get_libraries, then the stale cleanup, then begin_transaction.
\* Database has no remove_stale_media_items: the call raises AttributeError,
\* which sync_full_library's "except Exception" turns into rollback + False.
LibraryStart ==
  /\ pc = "LibrarySync"
  /\ \E ok \in BOOLEAN, n \in 0..MaxLibs, V \in SUBSET Keys :
       IF ~ok
       THEN \* "Could not fetch libraries": return False
            /\ Return(Cur, "Failed", "False")
            /\ UNCHANGED <<last_sync, offset, total_records, libs_left, valid_keys, resp, params>>
       ELSE IF cleanup_stale
       THEN /\ valid_keys' = V
            /\ Return(rollback_transaction(Cur), "RolledBack", "False")
            /\ UNCHANGED <<last_sync, offset, total_records, libs_left, resp, params>>
       ELSE IF n = 0
       THEN /\ LibraryDone(begin_transaction(Cur))
            /\ UNCHANGED valid_keys
       ELSE /\ SetStore(begin_transaction(Cur))
            /\ libs_left' = n /\ pc' = "LibraryWalk"
            /\ UNCHANGED <<last_sync, offset, total_records, page_len, pending,
                           valid_keys, resp, result, params>>
  /\ last_hist' = "none" /\ last_media' = "none"
  /\ UNCHANGED <<now, run, full_sync, cleanup_stale, pre, run_start, stored>>
  /\ UNCHANGED <<page_vars, retry_vars, aux_vars>>

\* The walk leaves a section: the next one, or the commit.
SectionDone(S) ==
  IF libs_left = 1
  THEN LibraryDone(S)
  ELSE /\ SetStore(S)
       /\ libs_left' = libs_left - 1 /\ offset' = 0
       /\ page_len' = 0 /\ pending' = 0
       /\ UNCHANGED <<pc, last_sync, total_records, resp, result, params>>

\* One get_library_media_info request of the flat walk.
LibraryFetch ==
  /\ pc = "LibraryWalk" /\ pending = 0
  /\ \E kind \in {"null", "empty", "page", "malformed"},
        n \in 1..MaxPage, total \in 0..MaxTotal :
       CASE kind \in {"null", "empty"} -> SectionDone(Cur)
         [] kind = "malformed" ->
              /\ Return(rollback_transaction(Cur), "RolledBack", "False")
              /\ UNCHANGED <<last_sync, offset, total_records, libs_left, resp, params>>
         [] kind = "page" ->
              /\ page_len' = n /\ pending' = n /\ total_records' = total
              /\ UNCHANGED <<db, conn, txn, pc, last_sync, offset, libs_left, resp, result, params>>
  /\ last_hist' = "none" /\ last_media' = "none"
  /\ UNCHANGED <<now, run, full_sync, cleanup_stale, valid_keys, pre, run_start, stored>>
  /\ UNCHANGED <<page_vars, retry_vars, aux_vars>>

\* One item of the page: store_media_item(normalized_item).
LibraryStore ==
  /\ pc = "LibraryWalk" /\ pending > 0
  /\ \E item \in MediaRecords, fail \in BOOLEAN :
       LET S == store_media_item(Cur, item, fail) IN
       /\ last_media' = MediaOutcome(item, fail)
       /\ IF pending > 1
          THEN /\ SetStore(S) /\ pending' = pending - 1
               /\ UNCHANGED <<pc, last_sync, offset, total_records, page_len,
                              libs_left, resp, result, params>>
          ELSE IF offset + page_len >= total_records
          THEN SectionDone(S)
          ELSE /\ SetStore(S) /\ pending' = 0 /\ page_len' = 0
               /\ offset' = offset + page_len
               /\ UNCHANGED <<pc, last_sync, total_records, libs_left, resp, result, params>>
  /\ last_hist' = "none"
  /\ UNCHANGED <<now, run, full_sync, cleanup_stale, valid_keys, pre, run_start, stored>>
  /\ UNCHANGED <<page_vars, retry_vars, aux_vars>>

\* One get_history request of sync_data's loop.
HistoryFetch ==
  /\ pc = "HistorySync" /\ pending = 0
  /\ \E kind \in {"null", "empty", "page", "malformed"},
        n \in 1..MaxPage, total \in 0..MaxTotal :
       CASE kind \in {"null", "empty"} ->
              \* break, commit_transaction, return True
              /\ Return(commit_transaction(Cur), "Committed", "True")
              /\ resp' = kind
              /\ UNCHANGED <<offset, total_records>>
         [] kind = "malformed" ->
              /\ Return(rollback_transaction(Cur), "RolledBack", "False")
              /\ resp' = kind
              /\ UNCHANGED <<offset, total_records>>
         [] kind = "page" ->
              /\ page_len' = n /\ pending' = n /\ total_records' = total
              /\ resp' = kind
              /\ UNCHANGED <<db, conn, txn, pc, offset, result>>
  /\ params' = HistoryParams(full_sync, last_sync)
  /\ last_hist' = "none" /\ last_media' = "none"
  /\ UNCHANGED <<now, run, full_sync, last_sync, libs_left, cleanup_stale, valid_keys,
                 pre, run_start, stored>>
  /\ UNCHANGED <<page_vars, retry_vars, aux_vars>>

\* One record of the page: store_play_history(item); store_media_item(item).
HistoryStore ==
  /\ pc = "HistorySync" /\ pending > 0
  /\ \E h \in HistoryRecords, failAt \in 0..4, mfail \in BOOLEAN :
       LET R == store_play_history(Cur, h, now, failAt)
           S == store_media_item(R.store, h, mfail)
       IN
         /\ last_hist' = R.outcome
         /\ last_media' = IF R.raised THEN "none" ELSE MediaOutcome(h, mfail)
         /\ IF R.raised
            THEN \* sync_data's "except Exception": rollback, return False
                 /\ Return(rollback_transaction(R.store), "RolledBack", "False")
                 /\ UNCHANGED <<offset, stored>>
            ELSE IF pending > 1
            THEN /\ SetStore(S) /\ pending' = pending - 1 /\ stored' = stored + 1
                 /\ UNCHANGED <<pc, offset, page_len, result>>
            ELSE IF offset + page_len >= total_records
            THEN /\ Return(commit_transaction(S), "Committed", "True")
                 /\ offset' = offset + page_len /\ stored' = stored + 1
            ELSE /\ SetStore(S) /\ pending' = 0 /\ page_len' = 0
                 /\ offset' = offset + page_len /\ stored' = stored + 1
                 /\ UNCHANGED <<pc, result>>
  /\ UNCHANGED <<now, run, full_sync, last_sync, total_records, libs_left,
                 cleanup_stale, valid_keys, resp, pre, run_start, params>>
  /\ UNCHANGED <<page_vars, retry_vars, aux_vars>>

Next ==
  \/ Tick
  \/ StoreMediaItem
  \/ StorePlayHistory
  \/ BeginTransaction
  \/ CommitTransaction
  \/ RollbackTransaction
  \/ ClearAllData
  \/ SyncDataIncremental
  \/ SyncDataFull
  \/ SyncFullLibrary
  \/ LibraryStart
  \/ LibraryFetch
  \/ LibraryStore
  \/ HistoryFetch
  \/ HistoryStore

Spec == Init /\ [][Next]_vars

\* ------------------------------------------------- properties of Spec
Rows(d) == BagCardinality(d.history)
HistorySyncRun == run = "sync_data" /\ ~full_sync

\* C1: a sync_data run in which processing raised (a write of
\* store_play_history, or the handling of a response) after K records were
\* stored leaves the committed store as it was before the run (no history,
\* user or media row of the run; last_history_sync and total_items_synced
\* at their pre-run values), with the connection closed, and returns False.
C1_Atomicity ==
  (run = "sync_data" /\ pc = "RolledBack") =>
    /\ db = pre
    /\ conn = "none"
    /\ result = "False"

\* K >= 1 records were stored, then store_play_history raised.
C1_Witness ==
  /\ HistorySyncRun /\ pc = "RolledBack"
  /\ stored >= 1 /\ last_hist = "raised"
  /\ Rows(db) >= 1

\* The rows of table `media` with rating_key k.
MediaOf(media, k) == {r \in media : r.rating_key = k}

MediaKeyUnique(media) ==
  \A r1, r2 \in media : r1.rating_key = r2.rating_key => r1 = r2

\* What store_media_item(item) must leave: one row for the key, with the
\* record's values.
MediaPost(item) ==
  MediaOf(txn.media, item.rating_key) =
    {[rating_key |-> item.rating_key, title |-> item.title, added_at |-> item.added_at]}

\* C2: no table ever holds two media_items rows with one rating_key, and
\* every store_media_item call of a record with a title whose statement
\* executes leaves exactly one row with the record's rating_key, holding the
\* record's values, whatever was stored (committed or not) before.
C2_IdempotentUpsert ==
  /\ [](MediaKeyUnique(db.media) /\ MediaKeyUnique(txn.media))
  /\ [][\A item \in MediaRecords, fail \in BOOLEAN :
          (StoreMediaItemOf(item, fail) /\ ~MediaWriteRaises(item, fail))
             => MediaPost(item)']_vars

\* A committed row is replaced, in a later transaction, by a call with the
\* same rating_key and other values.
C2_Witness ==
  /\ conn = "open" /\ last_media = "stored" /\ pc = "Idle"
  /\ \E q \in db.media : \E r \in txn.media :
        r.rating_key = q.rating_key /\ r # q

NoDuplicateHistory(d) == \A r \in BagToSet(d.history) : CopiesIn(r, d.history) = 1

\* C3: play_history, committed or as the open transaction sees it, never
\* holds two rows with one (rating_key, user_id, watched_at).
C3_HistoryDedup == NoDuplicateHistory(db) /\ NoDuplicateHistory(txn)

\* A committed run re-ingested a stored record and added no row.
C3_Witness ==
  /\ HistorySyncRun /\ pc = "Committed"
  /\ last_hist = "duplicate" /\ stored >= 1
  /\ Rows(pre) >= 1 /\ Rows(db) = Rows(pre)

CleanupDone == run # "none" /\ cleanup_stale /\ pc \in {"RolledBack", "Committed", "HistorySync"}

\* C5: after the cleanup of a full sync whose remote identifier set is
\* valid_keys, media_items holds no row outside valid_keys, keeps the rows
\* inside it, and play_history and users are as before.
C5_StaleCleanup ==
  (CleanupDone /\ pc = "RolledBack") =>
    /\ \A r \in db.media : r.rating_key \in valid_keys
    /\ \A r \in pre.media : r.rating_key \in valid_keys => r \in db.media
    /\ db.history = pre.history /\ db.users = pre.users

\* C6: a sync_data(full_sync=True) run in which get_libraries and every page
\* request succeeded and no store write raised ends Committed, returning True.
C6_FullSyncCommits ==
  (/\ run = "sync_data" /\ full_sync
   /\ pc \in {"Committed", "RolledBack", "Failed"}
   /\ pc # "Failed" /\ resp \notin {"null", "malformed"}
   /\ last_hist # "raised")
    => (pc = "Committed" /\ result = "True")

\* C7: a history sync whose get_history request returned null after a page
\* was stored ends rolled back: it returns False and commits nothing.
C7_NullPageAborts ==
  (run = "sync_data" /\ pc \in {"Committed", "RolledBack"} /\ resp = "null" /\ offset > 0)
    => (pc = "RolledBack" /\ result = "False" /\ db = pre)

MaxRemoteTotal == 2600   \* remote_total ranges over 0..MaxRemoteTotal

\* "length": 1000
PageLength == 1000

Min(a, b) == IF a <= b THEN a ELSE b
CeilDiv(a, b) == (a + b - 1) \div b

\* len(history) of the page the remote returns for start=off, length=PageLength
RemotePage(total, off) == IF off >= total THEN 0 ELSE Min(PageLength, total - off)

\* The wrong test: the loop goes on when offset equals recordsTotal.
LoopEnds_gt(off, total) == off > total

\* "if offset >= total_records: break"
LoopEnds(off, total) == off >= total

InitPage ==
  /\ SyncInit /\ RetryIdle /\ AuxIdle
  /\ remote_total \in 0..MaxRemoteTotal
  /\ requests = << >>

\* result = self._make_request("get_history", length=1000, start=offset);
\* "if not history: break"
PageRequest ==
  /\ pc = "Idle"
  /\ LET n == RemotePage(remote_total, offset) IN
       /\ requests' = Append(requests, [start |-> offset, returned |-> n])
       /\ total_records' = remote_total
       /\ page_len' = n
       /\ pc' = IF n = 0 THEN "Drained" ELSE "Page"
  /\ UNCHANGED <<db, conn, txn, now, run, full_sync, last_sync, offset, pending,
                 libs_left, cleanup_stale, valid_keys, resp, result, pre, run_start,
                 stored, last_hist, last_media, params>>
  /\ UNCHANGED <<remote_total, retry_vars, aux_vars>>

\* the page's records are stored; "offset += len(history)";
\* "if offset >= total_records: break"
PageStored ==
  /\ pc = "Page"
  /\ offset' = offset + page_len
  /\ stored' = stored + page_len
  /\ page_len' = 0
  /\ pc' = IF LoopEnds(offset + page_len, total_records) THEN "Drained" ELSE "Idle"
  /\ UNCHANGED <<db, conn, txn, now, run, full_sync, last_sync, total_records, pending,
                 libs_left, cleanup_stale, valid_keys, resp, result, pre, run_start,
                 last_hist, last_media, params>>
  /\ UNCHANGED <<page_vars, retry_vars, aux_vars>>

NextPage == PageRequest \/ PageStored

SpecPage == InitPage /\ [][NextPage]_vars

\* Request i is at offset (i-1) * PageLength: none repeated, none skipped.
OffsetsInOrder ==
  \A i \in 1..Len(requests) :
     /\ requests[i].start = (i - 1) * PageLength
     /\ requests[i].returned = RemotePage(remote_total, requests[i].start)

\* C9 as claimed: the drained loop has issued exactly ceil(T / P) requests.
C9_ExactlyCeilRequests ==
  pc = "Drained" => Len(requests) = CeilDiv(remote_total, PageLength)

\* C9 as the code has it: the loop asks at offsets 0, P, 2P, ... with none
\* repeated or skipped, goes on only while offset < T, stores all T records,
\* and stops after ceil(T / P) requests when T >= 1; when T = 0 it has
\* issued one request, at offset 0, whose page is empty.
C9_PaginationDrains ==
  /\ OffsetsInOrder
  /\ (pc = "Idle" /\ requests # << >>) => offset < remote_total
  /\ pc = "Drained" =>
       /\ stored = remote_total
       /\ Len(requests) = IF remote_total = 0 THEN 1
                          ELSE CeilDiv(remote_total, PageLength)

\* 2500 records are drained in 3 requests of 1000, 1000 and 500.
C9_Witness ==
  /\ pc = "Drained" /\ remote_total = 2500
  /\ requests = << [start |-> 0, returned |-> 1000],
                   [start |-> 1000, returned |-> 1000],
                   [start |-> 2000, returned |-> 500] >>

\* =============================================================== SpecRetry
\* Database.execute_with_retry(cursor, query): cursor.execute is called up
\* to max_retries times; outcomes[i] is what its i-th call does.
MaxCalls == 4     \* outcomes are given for 1..MaxCalls calls

\* "max_retries = 3"
max_retries == 3

Outcomes == {"ok", "locked", "error"}

InitRetry ==
  /\ SyncInit /\ PageIdle /\ AuxIdle
  /\ outcomes \in [1..MaxCalls -> Outcomes]
  /\ attempt = 0
  /\ retry_delay = 1
  /\ slept = << >>
  /\ retry_pc = "try"

\* The wrong bound: one retry fewer.
MayRetry_short(o, a) == o = "locked" /\ a < max_retries - 2

\* The wrong bound: the last attempt is retried too.
MayRetry_long(o, a) == o = "locked" /\ a < max_retries

\* The wrong test: every error is retried.
MayRetry_any(o, a) == a < max_retries - 1

\* 'if "database is locked" in str(e) and attempt < max_retries - 1'
MayRetry(o, a) == o = "locked" /\ a < max_retries - 1

Attempting == retry_pc = "try" /\ attempt < max_retries /\ attempt < MaxCalls

\* "return cursor.execute(query, params)"
RetryReturn ==
  /\ Attempting
  /\ outcomes[attempt + 1] = "ok"
  /\ retry_pc' = "returned"
  /\ UNCHANGED <<outcomes, attempt, retry_delay, slept>>
  /\ UNCHANGED <<sync_vars, page_vars, aux_vars>>

\* "time.sleep(retry_delay); retry_delay *= 2", then the next attempt
RetrySleep ==
  /\ Attempting
  /\ outcomes[attempt + 1] # "ok"
  /\ MayRetry(outcomes[attempt + 1], attempt)
  /\ slept' = Append(slept, retry_delay)
  /\ retry_delay' = retry_delay * 2
  /\ attempt' = attempt + 1
  /\ UNCHANGED <<outcomes, retry_pc>>
  /\ UNCHANGED <<sync_vars, page_vars, aux_vars>>

\* "else: raise"
RetryRaise ==
  /\ Attempting
  /\ outcomes[attempt + 1] # "ok"
  /\ ~MayRetry(outcomes[attempt + 1], attempt)
  /\ retry_pc' = "raised"
  /\ UNCHANGED <<outcomes, attempt, retry_delay, slept>>
  /\ UNCHANGED <<sync_vars, page_vars, aux_vars>>

NextRetry == RetryReturn \/ RetrySleep \/ RetryRaise

SpecRetry == InitRetry /\ [][NextRetry]_vars

LockedTwiceThenOk ==
  outcomes[1] = "locked" /\ outcomes[2] = "locked" /\ outcomes[3] = "ok"

\* C10: a statement that raises "database is locked" on its first two calls
\* and succeeds on the third is never raised to the caller, and when the call
\* is over it has returned after exactly 2 retries, having slept 1 then 2.
C10_RetrySuccess ==
  LockedTwiceThenOk =>
    /\ retry_pc # "raised"
    /\ retry_pc = "returned" => (attempt = 2 /\ slept = <<1, 2>>)
    /\ retry_pc = "try" => (attempt <= 2 /\ slept = SubSeq(<<1, 2>>, 1, attempt))

C10_Witness ==
  LockedTwiceThenOk /\ retry_pc = "returned" /\ attempt = 2 /\ slept = <<1, 2>>

LockedThrice ==
  outcomes[1] = "locked" /\ outcomes[2] = "locked" /\ outcomes[3] = "locked"

MaxChildren == 3     \* the parent has 0..MaxChildren children

\* added_at values the remote reports
ChildTimes == {100, 200, 300}
ParentTimes == {None, 100, 250, 999}

\* rating keys: the children are 1..Len(children), the parent is the next one
ChildKey(i) == i
ParentKey == MaxChildren + 1

SeqsUpTo(n, S) == UNION {[1..k -> S] : k \in 0..n}

InitWalk ==
  /\ SyncInit /\ PageIdle /\ RetryIdle /\ CliIdle /\ ReadIdle /\ MoreIdle
  /\ walk_kind \in {"season", "album"}
  /\ parent_added \in ParentTimes
  /\ children \in SeqsUpTo(MaxChildren, ChildTimes)
  /\ walk_idx = 0
  /\ walk_pc = "parent"

walk_rest == <<now, pc, run, full_sync, last_sync, offset, total_records, page_len,
               pending, libs_left, cleanup_stale, valid_keys, resp, result, pre,
               run_start, stored, last_hist, params, page_vars, retry_vars, cli_vars, read_vars,
               more_vars>>

\* normalized_item of the parent: 'added_at': item.get('added_at');
\* self.db.store_media_item(normalized_item)
WalkParent ==
  /\ walk_pc = "parent"
  /\ SetStore(store_media_item(Cur,
        [rating_key |-> ParentKey, title |-> 1, added_at |-> parent_added], FALSE))
  /\ last_media' = "stored"
  /\ walk_pc' = "children"
  /\ UNCHANGED <<walk_kind, parent_added, children, walk_idx, walk_rest>>

\* the recursive call with rating_key = the parent's: one child of the
\* listing is stored
WalkChild ==
  /\ walk_pc = "children" /\ walk_idx < Len(children)
  /\ SetStore(store_media_item(Cur,
        [rating_key |-> ChildKey(walk_idx + 1), title |-> 1,
         added_at |-> children[walk_idx + 1]], FALSE))
  /\ last_media' = "stored"
  /\ walk_idx' = walk_idx + 1
  /\ UNCHANGED <<walk_kind, parent_added, children, walk_pc, walk_rest>>

\* the listing is exhausted (an empty page, or offset >= total_records): the
\* recursive call returns; the walk goes on to commit_transaction
WalkReturn ==
  /\ walk_pc = "children" /\ walk_idx = Len(children)
  /\ SetStore(commit_transaction(Cur))
  /\ walk_pc' = "done"
  /\ UNCHANGED <<walk_kind, parent_added, children, walk_idx, last_media, walk_rest>>

NextWalk == WalkParent \/ WalkChild \/ WalkReturn

SpecWalk == InitWalk /\ [][NextWalk]_vars

RECURSIVE MinOf(_)
MinOf(q) ==
  IF Len(q) = 1 THEN q[1]
  ELSE LET m == MinOf(Tail(q)) IN IF q[1] <= m THEN q[1] ELSE m

DerivedAdded(q) == IF q = << >> THEN None ELSE MinOf(q)

\* C12: after the walk the season (album) row holds added_at = the minimum
\* added_at of its enumerated children, and null when it has none, whatever
\* the remote reported for the season (album) itself.
C12_ParentAddedIsMinOfChildren ==
  walk_pc = "done" =>
    \A r \in db.media :
       r.rating_key = ParentKey => r.added_at = DerivedAdded(children)

\* ------------------------------------------------ more properties of Spec
\* A get_history request of the current sync_data run has been issued.
HistoryRequested == run = "sync_data" /\ resp # "none"

\* C13 as claimed: every get_history request of an incremental run carries
\* start_date = the last_history_sync stored before the run, and no request
\* of a run with full_sync carries a start_date.
C13_CursorAlwaysSent ==
  HistoryRequested =>
    IF full_sync THEN ~params.has_start_date
    ELSE /\ params.has_start_date
         /\ params.start_date = pre.status.last_history_sync

\* C13 as the code has it: the requests of an incremental run carry
\* start_date = the last_history_sync committed before the run when that
\* value is greater than 0, and no start_date when it is 0; the requests of
\* a run with full_sync carry none.
C13_CursorSelection ==
  HistoryRequested =>
    /\ ~full_sync => last_sync = pre.status.last_history_sync
    /\ IF ~full_sync /\ pre.status.last_history_sync > 0
       THEN /\ params.has_start_date
            /\ params.start_date = pre.status.last_history_sync
       ELSE ~params.has_start_date

\* The second page request of an incremental run carries the watermark a
\* former run committed, although the run itself has moved the uncommitted one.
C13_Witness ==
  /\ HistorySyncRun /\ pc = "HistorySync" /\ resp = "page" /\ offset > 0
  /\ params.has_start_date
  /\ params.start_date = db.status.last_history_sync
  /\ txn.status.last_history_sync > db.status.last_history_sync

RunEnded == run # "none" /\ pc \in {"Committed", "RolledBack", "Failed"}

\* C14: the committed last_history_sync never decreases in a step other
\* than clear_all_data, so that after every sync run, committed or rolled
\* back, it is greater than or equal to its value before the run; it is
\* never ahead of the clock.
C14_MonotonicWatermark ==
  /\ [](/\ db.status.last_history_sync <= now
        /\ txn.status.last_history_sync <= now
        /\ RunEnded => db.status.last_history_sync >= pre.status.last_history_sync)
  /\ [][ClearAllData
          \/ db'.status.last_history_sync >= db.status.last_history_sync]_vars

\* A committed run moved a watermark that a former run had set.
C14_Witness ==
  /\ run = "sync_data" /\ pc = "Committed"
  /\ pre.status.last_history_sync > 0
  /\ db.status.last_history_sync > pre.status.last_history_sync

StatusZero ==
  [last_history_sync |-> 0, last_library_sync |-> 0, total_items_synced |-> 0]

\* C15: sync_status, committed or as the open transaction sees it, always
\* holds exactly the row with id = 1; clear_all_data sets its fields to 0
\* and keeps it.
C15_SingletonWatermark ==
  /\ [](db.status_ids = {1} /\ txn.status_ids = {1})
  /\ [][ClearAllData => (db'.status_ids = {1} /\ db'.status = StatusZero)]_vars

\* clear_all_data has reset a row that held a watermark.
C15_Witness ==
  /\ run = "none" /\ pc = "Idle" /\ pre # db
  /\ pre.status.last_history_sync > 0 /\ pre.status.total_items_synced > 0
  /\ db.status_ids = {1} /\ db.status = StatusZero

\* ================================================================= SpecCli
\* One run of scripts/sync_data.py: TautulliAPI() is constructed, the
\* database is cleared on --clear, api.sync_data runs, its result is
\* reported and the process ends.
Tables == {"media_items", "play_history", "users", "sync_status"}

\* What the process may find on disk: nothing, the data directory, or the
\* directory and a database file holding some of the tables.
InitialFs ==
  {NoFs, [NoFs EXCEPT !.dir = TRUE]}
  \cup {f \in [dir : {TRUE}, file : {TRUE}, tables : SUBSET Tables, status_row : BOOLEAN] :
          f.status_row => "sync_status" \in f.tables}

EnvUrls == {"", "/", "http://t", "http://t/"}
EnvKeys == {"", "k"}

\* os.getenv("TAUTULLI_URL", "").rstrip('/')
RStripSlash(u) ==
  CASE u = "/" -> ""
    [] u = "http://t/" -> "http://t"
    [] OTHER -> u

\* Database(): Path(db_path).parent.mkdir(parents=True, exist_ok=True), then
\* init_db: connect creates the file, CREATE TABLE IF NOT EXISTS, INSERT OR
\* IGNORE INTO sync_status, commit.
DatabaseInit(f) == [dir |-> TRUE, file |-> TRUE, tables |-> Tables, status_row |-> TRUE]

\* "if not self.base_url or not self.api_key"
ConfigMissing == base_url = "" \/ api_key = ""

InitCli ==
  /\ SyncInit /\ PageIdle /\ RetryIdle /\ WalkIdle /\ ReadIdle /\ MoreIdle
  /\ env_url \in EnvUrls /\ env_key \in EnvKeys
  /\ arg_clear \in BOOLEAN /\ arg_full \in BOOLEAN
  /\ base_url = "" /\ api_key = ""
  /\ fs \in InitialFs /\ fs0 = fs
  /\ db_built = FALSE /\ cleared = FALSE /\ sync_result = "none"
  /\ printed = {} /\ exit_status = 0 /\ cli_pc = "start"

cli_rest == <<sync_vars, page_vars, retry_vars, walk_vars, read_vars, more_vars>>

\* TautulliAPI.__init__: self.base_url = ..., self.api_key = ...
CliGetEnv ==
  /\ cli_pc = "start"
  /\ base_url' = RStripSlash(env_url) /\ api_key' = env_key
  /\ cli_pc' = "env"
  /\ UNCHANGED <<env_url, env_key, arg_clear, arg_full, fs, fs0, db_built, cleared,
                 sync_result, printed, exit_status, cli_rest>>

\* TautulliAPI.__init__: self.db = Database()
CliDatabase ==
  /\ cli_pc = "env"
  /\ fs' = DatabaseInit(fs) /\ db_built' = TRUE
  /\ cli_pc' = "db"
  /\ UNCHANGED <<env_url, env_key, arg_clear, arg_full, base_url, api_key, fs0, cleared,
                 sync_result, printed, exit_status, cli_rest>>

\* TautulliAPI.__init__: raise ValueError(...) when the configuration is
\* missing; nothing catches it, the interpreter prints the traceback and
\* exits with status 1.
CliCheckConfig ==
  /\ cli_pc = "db"
  /\ IF ConfigMissing
     THEN /\ printed' = printed \cup {"ValueError"}
          /\ exit_status' = 1 /\ cli_pc' = "exited"
     ELSE /\ cli_pc' = "constructed"
          /\ UNCHANGED <<printed, exit_status>>
  /\ UNCHANGED <<env_url, env_key, arg_clear, arg_full, base_url, api_key, fs, fs0,
                 db_built, cleared, sync_result, cli_rest>>

\* "if clear_first: api.db.clear_all_data()"
CliClear ==
  /\ cli_pc = "constructed"
  /\ cleared' = arg_clear
  /\ cli_pc' = "ready"
  /\ UNCHANGED <<env_url, env_key, arg_clear, arg_full, base_url, api_key, fs, fs0,
                 db_built, sync_result, printed, exit_status, cli_rest>>

\* "success = api.sync_data(full_sync=full_sync)": True, False, or an
\* exception of get_last_sync_time, which sync_data does not catch
CliSync ==
  /\ cli_pc = "ready"
  /\ \E r \in {"True", "False", "raised"} :
       /\ sync_result' = r
       /\ IF r = "raised"
          THEN /\ printed' = printed \cup {"Traceback"}
               /\ exit_status' = 1 /\ cli_pc' = "exited"
          ELSE /\ cli_pc' = "synced"
               /\ UNCHANGED <<printed, exit_status>>
  /\ UNCHANGED <<env_url, env_key, arg_clear, arg_full, base_url, api_key, fs, fs0,
                 db_built, cleared, cli_rest>>

\* "if success: ... else: print('Sync failed. ...'); return False"
CliReport ==
  /\ cli_pc = "synced"
  /\ printed' = printed \cup {IF sync_result = "True" THEN "SYNC COMPLETED" ELSE "Sync failed"}
  /\ cli_pc' = "returned"
  /\ UNCHANGED <<env_url, env_key, arg_clear, arg_full, base_url, api_key, fs, fs0,
                 db_built, cleared, sync_result, exit_status, cli_rest>>

\* __main__: "sync_data(clear_first=args.clear, full_sync=args.full_sync)":
\* the value returned is dropped and the script ends, with status 0.
CliExit ==
  /\ cli_pc = "returned"
  /\ exit_status' = 0
  /\ cli_pc' = "exited"
  /\ UNCHANGED <<env_url, env_key, arg_clear, arg_full, base_url, api_key, fs, fs0,
                 db_built, cleared, sync_result, printed, cli_rest>>

NextCli ==
  \/ CliGetEnv \/ CliDatabase \/ CliCheckConfig \/ CliClear
  \/ CliSync \/ CliReport \/ CliExit

SpecCli == InitCli /\ [][NextCli]_vars

\* C16: when TAUTULLI_URL or TAUTULLI_API_KEY is absent, the configuration
\* error is raised before the store is constructed: nothing (directory,
\* file, schema) has been created on disk.
C16_ConfigErrorFirst ==
  "ValueError" \in printed => (~db_built /\ fs = fs0)

\* C17: the sync CLI ends with status 0 only when api.sync_data returned
\* True; when it returned False it has printed a diagnostic and ends with a
\* non-zero status.
C17_FailureExitsNonZero ==
  cli_pc = "exited" =>
    /\ exit_status = 0 => sync_result = "True"
    /\ sync_result = "False" => ("Sync failed" \in printed /\ exit_status # 0)

\* ================================================================ SpecRead
\* The store operations and sync runs of Spec, with the store's read
\* queries, get_last_sync_time and clear_all_data called at any point, and
\* with a reader in another process.

\* The wrong choice: new_connection is ignored.
get_connection_shared(S, new_connection) ==
  IF S.conn = "none" THEN "own" ELSE "transaction"

\* get_connection(new_connection): "if new_connection or self._connection is
\* None:" a connection of its own, closed after the query; "else: yield
\* self._connection"
get_connection(S, new_connection) ==
  IF new_connection \/ S.conn = "none" THEN "own" ELSE "transaction"

\* What a connection sees: the transaction's connection sees its uncommitted
\* writes, any other connection sees the committed file.
ConnView(S, c) == IF c = "transaction" THEN S.txn ELSE S.db

\* "with self.get_connection(new_connection=True)"
ReadsNew == {"get_all_history", "get_user_stats_by_media", "get_all_media_items"}
\* "with self.get_connection()"
ReadsShared == {"get_recently_added", "get_most_watched", "get_user_stats"}

\* The tables a read query selects from.
Visible(d, q) ==
  CASE q \in {"get_recently_added", "get_all_media_items"} -> <<d.media>>
    [] q \in {"get_most_watched", "get_user_stats_by_media"} -> <<d.history, d.media, d.users>>
    [] q = "get_user_stats" -> <<d.history, d.users>>
    [] q = "get_all_history" -> <<d.history, d.media, d.users>>
    [] OTHER -> <<d.status>>

\* An operation q ran on connection c.
Recorded(kind, q, c) ==
  /\ last_op' = kind
  /\ op_conn' = c
  /\ op_txn_open' = (conn = "open")
  /\ op_pending' = (txn # db)
  /\ op_dirty' = (Visible(ConnView(Cur, c), q) # Visible(db, q))

read_rest == <<page_vars, retry_vars, walk_vars, cli_vars, more_vars>>

\* get_all_history, get_user_stats_by_media, get_all_media_items
ReadNewConnection ==
  /\ \E q \in ReadsNew : Recorded("read_new", q, get_connection(Cur, TRUE))
  /\ UNCHANGED <<sync_vars, read_rest>>

\* get_recently_added, get_most_watched, get_user_stats
ReadGetConnection ==
  /\ \E q \in ReadsShared : Recorded("read_shared", q, get_connection(Cur, FALSE))
  /\ UNCHANGED <<sync_vars, read_rest>>

\* A query of another process: it has no handle on the instance's connection.
ReadOtherProcess ==
  /\ \E q \in ReadsNew \cup ReadsShared : Recorded("other_process", q, "own")
  /\ UNCHANGED <<sync_vars, read_rest>>

\* get_last_sync_time: "with self.get_connection(new_connection=True)"
GetLastSyncTime ==
  /\ Recorded("get_last_sync_time", "get_last_sync_time", get_connection(Cur, TRUE))
  /\ UNCHANGED <<sync_vars, read_rest>>

\* clear_all_data at any point outside a run: "with
\* self.get_connection(new_connection=True)". While the instance's
\* transaction holds uncommitted writes its DELETE cannot get the write lock
\* and raises "database is locked"; otherwise it clears and commits.
ClearAllDataAnyTime ==
  /\ pc \in Rest
  /\ Recorded("clear_all_data", "clear_all_data", get_connection(Cur, TRUE))
  /\ IF txn = db
     THEN /\ db' = ClearedDb /\ txn' = ClearedDb /\ conn' = conn
          /\ pc' = "Idle" /\ NoRun /\ pre' = db
          /\ last_hist' = "none" /\ last_media' = "none"
          /\ UNCHANGED <<now, run_start, stored>>
     ELSE UNCHANGED sync_vars
  /\ UNCHANGED read_rest

\* The clock stands still: no operation below depends on it.
NextRead ==
  \/ StoreMediaItem
  \/ StorePlayHistory
  \/ BeginTransaction
  \/ CommitTransaction
  \/ RollbackTransaction
  \/ SyncDataIncremental
  \/ SyncDataFull
  \/ SyncFullLibrary
  \/ LibraryStart
  \/ LibraryFetch
  \/ LibraryStore
  \/ HistoryFetch
  \/ HistoryStore
  \/ ReadNewConnection
  \/ ReadGetConnection
  \/ ReadOtherProcess
  \/ GetLastSyncTime
  \/ ClearAllDataAnyTime

SpecRead == Init /\ [][NextRead]_vars

Running == pc \in {"LibrarySync", "LibraryWalk", "HistorySync"}

\* C18: a read on an independent connection (a new_connection read, or
\* another process) never returns an uncommitted row; and the committed
\* store is the pre-run one at every point of a run before its commit and
\* after its rollback, so that what such a reader sees is the committed
\* state before the run or the one after it.
C18_ReaderIsolation ==
  /\ last_op \in {"read_new", "other_process"} => (op_conn = "own" /\ ~op_dirty)
  /\ (Running \/ (run # "none" /\ pc \in {"RolledBack", "Failed"})) => db = pre

\* A new_connection read ran while the transaction held uncommitted
\* writes, and returned committed rows only.
C18_Witness ==
  /\ last_op = "read_new" /\ op_txn_open /\ op_pending /\ ~op_dirty
  /\ run = "sync_data" /\ pc = "HistorySync" /\ stored >= 1 /\ txn # db /\ db = pre

\* C19: an operation invoked while the instance's transaction is open runs
\* on the transaction's connection; none opens a connection of its own.
C19_SingleConnection ==
  (last_op \in {"read_new", "read_shared", "get_last_sync_time", "clear_all_data"}
     /\ op_txn_open)
    => op_conn = "transaction"

\* C20: every read query of the store runs on a connection of its own and
\* returns committed rows only.
C20_ReadsOwnConnection ==
  last_op \in {"read_new", "read_shared"} => (op_conn = "own" /\ ~op_dirty)

\* ------------------------------------------- further properties of Spec
\* The play_history rows a run has added to the committed store.
NewHistory == {r \in BagToSet(db.history) : CopiesIn(r, pre.history) = 0}

\* C21: after a committed history sync every play_history row the run wrote
\* has a media_items row with its rating_key, whatever the record's title.
C21_HistoryResolves ==
  (run = "sync_data" /\ pc = "Committed") =>
    \A r \in NewHistory : MediaOf(db.media, r.rating_key) # {}

\* ------------------------------------------------------------------ SpecKeys
\* _collect_all_rating_keys and the walk sync_full_library makes, applied to
\* the same section of the remote.  The section's top-level items have the
\* rating keys 1..sec_total; in a show (artist) section item k is a show
\* (artist) with one season (album) and one episode (track) below it.
MaxItems == 1002
KeyStride == MaxItems + 1
SectionTypes == {"show", "artist", "movie"}

\* data.get("data", []) of get_library_media_info(start=off, length=1000)
TopPage(total, off) == {k \in 1..total : off < k /\ k <= off + PageLength}

\* the keys below top-level item k: its season and episode, or album and track
Descendants(k) == {KeyStride + k, 2 * KeyStride + k}
Nested(t) == t \in {"show", "artist"}

keys_rest == <<sync_vars, page_vars, retry_vars, walk_vars, cli_vars, read_vars, row_vars,
               txn_vars, api_vars, conc_vars>>

InitKeys ==
  /\ SyncInit /\ PageIdle /\ RetryIdle /\ WalkIdle /\ CliIdle /\ ReadIdle /\ RowIdle
  /\ TxnIdle /\ ApiIdle /\ ConcIdle
  /\ sec_type \in SectionTypes
  /\ sec_total \in 0..MaxItems
  /\ keys_pc = "collect" /\ keys_offset = 0
  /\ items = {} /\ items_bound = FALSE /\ all_keys = {} /\ upserted = {}
  /\ req_failed = FALSE

\* one turn of the "while True" loop of _collect_all_rating_keys
CollectPage ==
  /\ keys_pc = "collect"
  /\ \E ok \in BOOLEAN :
       IF ~ok
       THEN \* "if not result or "response" not in result: break"
            /\ keys_pc' = "children"
            /\ req_failed' = TRUE
            /\ UNCHANGED <<items, items_bound, all_keys, keys_offset>>
       ELSE LET page == TopPage(sec_total, keys_offset)
                off == keys_offset + Cardinality(page) IN
            /\ items' = page
            /\ items_bound' = TRUE
            /\ UNCHANGED req_failed
            /\ IF page = {}
               THEN /\ keys_pc' = "children"
                    /\ UNCHANGED <<all_keys, keys_offset>>
               ELSE /\ all_keys' = all_keys \cup page
                    /\ keys_offset' = off
                    /\ keys_pc' = IF off >= sec_total THEN "children" ELSE "collect"
  /\ UNCHANGED <<sec_type, sec_total, upserted, keys_rest>>

\* after the loop: "for item in items: ... self._collect_children_keys(...)",
\* over the page the local "items" holds at that point
CollectChildren ==
  /\ keys_pc = "children"
  /\ IF ~Nested(sec_type)
     THEN keys_pc' = "collected" /\ UNCHANGED all_keys
     ELSE IF ~items_bound
     THEN keys_pc' = "raised" /\ UNCHANGED all_keys
     ELSE /\ keys_pc' = "collected"
          /\ all_keys' = all_keys \cup UNION {Descendants(k) : k \in items}
  /\ UNCHANGED <<sec_type, sec_total, keys_offset, items, items_bound, upserted,
                 req_failed, keys_rest>>

\* the walk starts: "offset = 0"
WalkStart ==
  /\ keys_pc = "collected"
  /\ keys_pc' = "walk"
  /\ keys_offset' = 0
  /\ UNCHANGED <<sec_type, sec_total, items, items_bound, all_keys, upserted,
                 req_failed, keys_rest>>

\* one turn of the top-level "while True" loop of _sync_library_recursive,
\* _sync_music_library_recursive or of sync_full_library's own loop: every
\* item of the page is stored, and so is everything below a show or artist
WalkPage ==
  /\ keys_pc = "walk"
  /\ \E ok \in BOOLEAN :
       IF ~ok
       THEN /\ keys_pc' = "done"
            /\ req_failed' = TRUE
            /\ UNCHANGED <<items, items_bound, upserted, keys_offset>>
       ELSE LET page == TopPage(sec_total, keys_offset)
                off == keys_offset + Cardinality(page) IN
            /\ items' = page
            /\ items_bound' = TRUE
            /\ UNCHANGED req_failed
            /\ IF page = {}
               THEN /\ keys_pc' = "done"
                    /\ UNCHANGED <<upserted, keys_offset>>
               ELSE /\ upserted' = upserted \cup page \cup
                          (IF Nested(sec_type)
                           THEN UNION {Descendants(k) : k \in page} ELSE {})
                    /\ keys_offset' = off
                    /\ keys_pc' = IF off >= sec_total THEN "done" ELSE "walk"
  /\ UNCHANGED <<sec_type, sec_total, all_keys, keys_rest>>

NextKeys == CollectPage \/ CollectChildren \/ WalkStart \/ WalkPage

SpecKeys == InitKeys /\ [][NextKeys]_vars

\* C22: when every request is answered, the set _collect_all_rating_keys
\* returned contains every rating key the walk of the same section upserts.
C22_ValidKeysComplete ==
  (keys_pc = "done" /\ ~req_failed) => upserted \subseteq all_keys

\* ------------------------------------------------------------------- SpecRow
\* store_media_item with every column of media_items, given the dicts its two
\* callers pass: the walk's normalized_item and sync_data's history record.
MaxRowKey == 3
RowKeys == 1..MaxRowKey
MediaTypes == {"movie", "episode", "track"}

\* the columns the INSERT OR REPLACE names, updated_at apart
Columns == {"rating_key", "title", "year", "media_type", "thumb", "art", "banner",
            "summary", "duration", "file_size", "added_at"}

\* item.get(f)
Get(item, f) == IF f \in DOMAIN item THEN item[f] ELSE None

\* the rating keys the remote reports above item k
ShowOf(k) == (k % MaxRowKey) + 1
AlbumOf(k) == ((k + 1) % MaxRowKey) + 1

\* normalized_item of the walks; the music walk adds parent_rating_key
LibraryFields(mt) ==
  {"rating_key", "title", "year", "media_type", "thumb", "duration", "file_size",
   "added_at", "grandparent_rating_key"}
    \cup (IF mt = "track" THEN {"parent_rating_key"} ELSE {})

LibraryItem(k, ti, mt) ==
  [f \in LibraryFields(mt) |->
     CASE f = "rating_key" -> k
       [] f = "title" -> ti
       [] f = "media_type" -> mt
       [] f = "duration" -> 10
       [] f = "file_size" -> 5
       [] f = "added_at" -> 7
       [] f = "grandparent_rating_key" -> IF mt = "movie" THEN None ELSE ShowOf(k)
       [] f = "parent_rating_key" -> AlbumOf(k)
       [] OTHER -> 1]

\* a record of get_history: no added_at, no file_size, its own duration
HistoryFields ==
  {"rating_key", "title", "year", "media_type", "thumb", "duration", "user_id",
   "date", "parent_rating_key", "grandparent_rating_key"}

HistoryItem(k, ti, mt) ==
  [f \in HistoryFields |->
     CASE f = "rating_key" -> k
       [] f = "title" -> ti
       [] f = "media_type" -> mt
       [] f = "duration" -> 20
       [] f = "grandparent_rating_key" -> IF mt = "movie" THEN None ELSE ShowOf(k)
       [] f = "parent_rating_key" -> IF mt = "movie" THEN None ELSE AlbumOf(k)
       [] OTHER -> 1]

\* the VALUES tuple: item.get(column) for each column, and the clock
MediaValues(item, t) ==
  [c \in Columns \cup {"updated_at"} |-> IF c = "updated_at" THEN t ELSE Get(item, c)]

RowOf(tb, k) == {r \in tb : r["rating_key"] = k}

\* The wrong upsert: a null value keeps the column of the stored row.
InsertOrReplace_coalesce(tb, row) ==
  LET old == RowOf(tb, row["rating_key"])
      merged == IF old = {} THEN row
                ELSE LET o == CHOOSE r \in old : TRUE
                     IN [c \in DOMAIN row |->
                           IF c \in {"duration", "file_size", "added_at"} /\ row[c] = None
                           THEN o[c] ELSE row[c]]
  IN (tb \ old) \cup {merged}

\* INSERT OR REPLACE: the stored row with the same rating_key is deleted and
\* the new row inserted
InsertOrReplace(tb, row) == (tb \ RowOf(tb, row["rating_key"])) \cup {row}

\* title is NOT NULL
RowRaises(item) == Get(item, "title") = None

row_rest == <<sync_vars, page_vars, retry_vars, walk_vars, cli_vars, read_vars, keys_vars,
              txn_vars, api_vars, conc_vars>>

InitRow ==
  /\ SyncInit /\ PageIdle /\ RetryIdle /\ WalkIdle /\ CliIdle /\ ReadIdle /\ KeysIdle
  /\ RowIdle /\ TxnIdle /\ ApiIdle /\ ConcIdle

\* store_media_item(item): the exception of a failed statement is swallowed
StoreRow(item, kind) ==
  /\ prev_tbl' = tbl
  /\ last_item' = item
  /\ last_kind' = kind
  /\ last_raised' = RowRaises(item)
  /\ tbl' = IF RowRaises(item) THEN tbl ELSE InsertOrReplace(tbl, MediaValues(item, now))
  /\ UNCHANGED row_rest

\* self.db.store_media_item(normalized_item) of the library walks
RowStoreLibrary ==
  \E k \in RowKeys, ti \in Titles, mt \in MediaTypes : StoreRow(LibraryItem(k, ti, mt), "library")

\* self.db.store_media_item(item) of sync_data
RowStoreHistory ==
  \E k \in RowKeys, ti \in Titles, mt \in MediaTypes : StoreRow(HistoryItem(k, ti, mt), "history")

NextRow == RowStoreLibrary \/ RowStoreHistory

SpecRow == InitRow /\ [][NextRow]_vars

\* the rating keys of the rows above the item: an episode's show, a track's
\* album and artist
AncestorsOf(item) ==
  IF Get(item, "media_type") = "episode" THEN {Get(item, "grandparent_rating_key")}
  ELSE IF Get(item, "media_type") = "track"
  THEN {Get(item, "parent_rating_key"), Get(item, "grandparent_rating_key")}
  ELSE {}

\* C23: after an episode or a track has been upserted, media_items holds a
\* row for its show, respectively for its album and its artist.
C23_AncestorsUpserted ==
  (last_kind # "none" /\ ~last_raised) =>
    \A a \in AncestorsOf(last_item) : RowOf(tbl, a) # {}

txn_rest == <<page_vars, retry_vars, walk_vars, cli_vars, read_vars, keys_vars, row_vars,
              api_vars, conc_vars>>

\* what begin_transaction finds in store S
Found(S) ==
  IF S.conn = "none" THEN "fresh" ELSE IF S.txn = S.db THEN "clean" ELSE "dirty"

\* an operation called outside a sync run takes the store to S
Standalone(S, b) ==
  /\ pc \in Rest
  /\ SetStore(S)
  /\ begun' = b
  /\ before' = Cur
  /\ pc' = "Idle" /\ NoRun /\ pre' = db' /\ last_hist' = "none" /\ last_media' = "none"
  /\ UNCHANGED now
  /\ UNCHANGED txn_rest

TxnStoreMediaItem ==
  \E item \in MediaRecords, fail \in BOOLEAN :
    Standalone(store_media_item(Cur, item, fail), "none")

TxnStorePlayHistory ==
  \E h \in HistoryRecords, failAt \in 0..4 :
    Standalone(store_play_history(Cur, h, now, failAt).store, "none")

TxnBegin == Standalone(begin_transaction(Cur), Found(Cur))

TxnCommit == conn = "open" /\ Standalone(commit_transaction(Cur), "none")

TxnRollback == conn = "open" /\ Standalone(rollback_transaction(Cur), "none")

NextTxn == TxnStoreMediaItem \/ TxnStorePlayHistory \/ TxnBegin \/ TxnCommit \/ TxnRollback

SpecTxn == Init /\ [][NextTxn]_vars

\* C24: a store instance has one connection handle and so at most one open
\* transaction; without a connection there are no uncommitted writes.
\* begin_transaction leaves a connection open that sees the committed state
\* only and changes nothing in the file: when a transaction was open, its
\* uncommitted writes are gone and have not been committed.
C24_OneTransaction ==
  /\ conn \in {"none", "open"}
  /\ conn = "none" => txn = db
  /\ begun # "none" => (conn = "open" /\ db = before.db /\ txn = before.db)

\* begin_transaction was called while a transaction held uncommitted writes
C24_Witness ==
  /\ begun = "dirty"
  /\ before.conn = "open" /\ before.txn # before.db
  /\ txn = db /\ db = before.db

\* ------------------------------------------------------------------- SpecApi
\* The operations of one TautulliAPI instance: the two syncs and the
\* read-side calls, which store what the remote returned.  The read-side
\* calls are given content with a rating key of its own, ApiKey, so that the
\* rows they write can be told from the rows a sync writes.
ApiKey == MaxKey + 1
ApiMediaRecords == [rating_key : {ApiKey}, title : Titles, added_at : 0..MaxAdded]
ApiHistoryRecords ==
  [rating_key : {ApiKey}, user_id : Users, date : Dates, title : Titles, added_at : {None}]

HasApiRows(d) ==
  \/ MediaOf(d.media, ApiKey) # {}
  \/ \E r \in BagToSet(d.history) : r.rating_key = ApiKey

api_rest == <<page_vars, retry_vars, walk_vars, cli_vars, read_vars, keys_vars, row_vars,
              txn_vars, conc_vars>>

\* a read-side call leaves the store as S
ApiCall(op, S) ==
  /\ pc \in Rest
  /\ SetStore(S)
  /\ api_op' = op
  /\ api_wrote' = (api_wrote \/ HasApiRows(S.txn))
  /\ pc' = "Idle" /\ NoRun /\ pre' = db' /\ last_hist' = "none" /\ last_media' = "none"
  /\ UNCHANGED now
  /\ UNCHANGED api_rest

\* get_recently_added: "for item in processed_items:
\* self.db.store_media_item(item)", or the fallback read when the request failed
ApiGetRecentlyAdded ==
  \E ok \in BOOLEAN, item \in ApiMediaRecords, fail \in BOOLEAN :
    ApiCall("get_recently_added",
            IF ok THEN store_media_item(Cur, item, fail) ELSE Cur)

\* the loop of get_user_stats and get_most_watched_by_users over a record:
\* store_play_history(item); store_media_item(item)
StoreFetched(S, ok, h, failAt, mfail) ==
  IF ~ok THEN S
  ELSE LET R == store_play_history(S, h, now, failAt) IN
       IF R.raised THEN R.store ELSE store_media_item(R.store, h, mfail)

ApiGetUserStats ==
  \E ok \in BOOLEAN, h \in ApiHistoryRecords, failAt \in 0..4, mfail \in BOOLEAN :
    ApiCall("get_user_stats", StoreFetched(Cur, ok, h, failAt, mfail))

ApiGetMostWatchedByUsers ==
  \E ok \in BOOLEAN, h \in ApiHistoryRecords, failAt \in 0..4, mfail \in BOOLEAN :
    ApiCall("get_most_watched_by_users", StoreFetched(Cur, ok, h, failAt, mfail))

NextApi ==
  \/ ApiGetRecentlyAdded
  \/ ApiGetUserStats
  \/ ApiGetMostWatchedByUsers
  \/ SyncDataIncremental
  \/ SyncDataFull
  \/ SyncFullLibrary
  \/ LibraryStart
  \/ LibraryFetch
  \/ LibraryStore
  \/ HistoryFetch
  \/ HistoryStore

SpecApi == Init /\ [][NextApi]_vars

MaxRunRecords == 2
Procs == {1, 2}
HistoryRows == {HistoryRow(h) : h \in HistoryRecords}
Other(p) == 3 - p

\* The wrong users upsert: it runs without taking the write lock.
users_upsert_lock_none(l, p) == l

\* the lock after process p executed INSERT OR REPLACE INTO users
users_upsert_lock(l, p) == IF l = 0 THEN p ELSE l

\* a writing statement of p goes through
CanWrite(l, p) == l \in {0, p}

conc_rest == <<sync_vars, page_vars, retry_vars, walk_vars, cli_vars, read_vars, keys_vars,
               row_vars, txn_vars, api_vars>>

InitConc ==
  /\ SyncInit /\ PageIdle /\ RetryIdle /\ WalkIdle /\ CliIdle /\ ReadIdle
  /\ KeysIdle /\ RowIdle /\ TxnIdle /\ ApiIdle
  /\ c_file \in {SetToBag(R) : R \in SUBSET HistoryRows}
  /\ c_lock = 0
  /\ c_pc = [p \in Procs |-> "idle"]
  /\ c_rec = [p \in Procs |-> CHOOSE r \in HistoryRows : TRUE]
  /\ c_found = [p \in Procs |-> FALSE]
  /\ c_new = [p \in Procs |-> EmptyBag]
  /\ c_left = [p \in Procs |-> 0]
  /\ c_result = [p \in Procs |-> "none"]
  /\ c_overlap = FALSE

\* sync_data's "except Exception": rollback_transaction, return False
ConcFail(p) ==
  /\ c_new' = [c_new EXCEPT ![p] = EmptyBag]
  /\ c_lock' = IF c_lock = p THEN 0 ELSE c_lock
  /\ c_pc' = [c_pc EXCEPT ![p] = "done"]
  /\ c_result' = [c_result EXCEPT ![p] = "False"]

\* sync_data: begin_transaction, then the remote's records
ConcBegin(p) ==
  /\ c_pc[p] = "idle"
  /\ \E n \in 1..MaxRunRecords : c_left' = [c_left EXCEPT ![p] = n]
  /\ c_pc' = [c_pc EXCEPT ![p] = "upsert"]
  /\ c_overlap' = (c_overlap \/ c_pc[Other(p)] \in {"upsert", "lookup", "insert", "commit"})
  /\ UNCHANGED <<c_file, c_lock, c_rec, c_found, c_new, c_result, conc_rest>>

\* store_play_history: INSERT OR REPLACE INTO users
ConcUpsertUser(p) ==
  /\ c_pc[p] = "upsert"
  /\ \E h \in HistoryRecords :
       IF CanWrite(c_lock, p)
       THEN /\ c_lock' = users_upsert_lock(c_lock, p)
            /\ c_rec' = [c_rec EXCEPT ![p] = HistoryRow(h)]
            /\ c_pc' = [c_pc EXCEPT ![p] = "lookup"]
            /\ UNCHANGED <<c_new, c_result>>
       ELSE ConcFail(p) /\ UNCHANGED c_rec
  /\ UNCHANGED <<c_file, c_found, c_left, c_overlap, conc_rest>>

\* store_play_history: SELECT id FROM play_history WHERE ...; fetchone()
ConcLookup(p) ==
  /\ c_pc[p] = "lookup"
  /\ c_found' = [c_found EXCEPT ![p] = CopiesIn(c_rec[p], c_file (+) c_new[p]) > 0]
  /\ c_pc' = [c_pc EXCEPT ![p] = "insert"]
  /\ UNCHANGED <<c_file, c_lock, c_rec, c_new, c_left, c_result, c_overlap, conc_rest>>

\* store_play_history: "if not cursor.fetchone(): INSERT INTO play_history",
\* then the next record or commit_transaction
ConcInsert(p) ==
  /\ c_pc[p] = "insert"
  /\ IF ~c_found[p] /\ ~CanWrite(c_lock, p)
     THEN ConcFail(p) /\ UNCHANGED c_left
     ELSE /\ c_new' = IF c_found[p] THEN c_new
                      ELSE [c_new EXCEPT ![p] = @ (+) SetToBag({c_rec[p]})]
          /\ c_lock' = IF c_found[p] THEN c_lock ELSE p
          /\ c_left' = [c_left EXCEPT ![p] = @ - 1]
          /\ c_pc' = [c_pc EXCEPT ![p] = IF c_left[p] = 1 THEN "commit" ELSE "upsert"]
          /\ UNCHANGED c_result
  /\ UNCHANGED <<c_file, c_rec, c_found, c_overlap, conc_rest>>

\* sync_data: commit_transaction, return True
ConcCommit(p) ==
  /\ c_pc[p] = "commit"
  /\ c_file' = c_file (+) c_new[p]
  /\ c_new' = [c_new EXCEPT ![p] = EmptyBag]
  /\ c_lock' = IF c_lock = p THEN 0 ELSE c_lock
  /\ c_pc' = [c_pc EXCEPT ![p] = "done"]
  /\ c_result' = [c_result EXCEPT ![p] = "True"]
  /\ UNCHANGED <<c_rec, c_found, c_left, c_overlap, conc_rest>>

NextConc ==
  \E p \in Procs :
    \/ ConcBegin(p)
    \/ ConcUpsertUser(p)
    \/ ConcLookup(p)
    \/ ConcInsert(p)
    \/ ConcCommit(p)

SpecConc == InitConc /\ [][NextConc]_vars

\* C27: two processes running sync_data concurrently never produce two
\* play_history rows with the same (rating_key, user_id, watched_at): a
\* process holds the write lock from its users upsert, before the dedup
\* lookup, until it commits or rolls back, so only the lock holder has
\* uncommitted rows.
C27_NoConcurrentDuplicates ==
  /\ \A r \in HistoryRows : CopiesIn(r, c_file) <= 1
  /\ \A p \in DOMAIN c_new :
       /\ c_new[p] # EmptyBag => c_lock = p
       /\ c_pc[p] \in {"lookup", "insert"} => c_lock = p
       /\ \A r \in HistoryRows : CopiesIn(r, c_file (+) c_new[p]) <= 1

\* two overlapping runs were given the same record and both committed
C27_Witness ==
  /\ c_overlap
  /\ c_pc = [p \in Procs |-> "done"]
  /\ c_result = [p \in Procs |-> "True"]
  /\ c_rec[1] = c_rec[2]
  /\ CopiesIn(c_rec[1], c_file) = 1

\* C28: in every committed state, and in every view of an open transaction,
\* total_items_synced equals the number of play_history rows.
C28_CounterIsRowCount ==
  /\ db.status.total_items_synced = Rows(db)
  /\ txn.status.total_items_synced = Rows(txn)

\* A committed run inserted a row and re-ingested one; the counter is the
\* number of rows.
C28_Witness ==
  /\ HistorySyncRun /\ pc = "Committed"
  /\ last_hist = "duplicate"
  /\ Rows(db) > Rows(pre) /\ Rows(db) >= 2
  /\ db.status.total_items_synced = Rows(db)

C30_OnlyLockedRetried ==
  /\ \A i \in 1..attempt : outcomes[i] = "locked"
  /\ Len(slept) = attempt
  /\ \A i \in 1..max_retries :
       outcomes[i] = "error" =>
         /\ attempt <= i - 1
         /\ (retry_pc = "raised" /\ attempt = i - 1) => Len(slept) = i - 1

\* locked once, then another error: raised by the second call, one sleep
C30_Witness ==
  /\ outcomes[1] = "locked" /\ outcomes[2] = "error" /\ outcomes[3] = "ok"
  /\ retry_pc = "raised" /\ attempt = 1 /\ slept = <<1>>

====
